---- MODULE Spec2Model ----
(***************************************************************************)
(* Speaker alignment of quick_quotes: SpeakerDiarizer.diarize_transcript   *)
(* and SpeakerDiarizer._heuristic_diarization (src/backend/diarizer.py),   *)
(* together with the two record shapes its callers build for it            *)
(* (src/backend/enhanced_transcriber.py, src/backend/main.py).             *)
(*                                                                         *)
(* Times are whole seconds.  A Python dict is a record whose absent keys   *)
(* hold Absent; a text is a sequence of one-character strings so that      *)
(* "".join and str.strip are computed, not assumed.                        *)
(***************************************************************************)
EXTENDS Integers, Sequences, FiniteSets, TLC

VARIABLES transcript, diarization_segments, audio_file_path, pipeline,
          segments, word_speakers, result, mode, pc,
          heuristic_speaker, heuristic_last_end, previous,
          flow, transcription_task, diarization_task,
          progress_tracker, upload_pc,
          is_recording, current_meeting_id, audio_queue, self_transcript,
          recording_thread, record_audio, process_audio_queue,
          stop_recording, returned, appended

vars == <<transcript, diarization_segments, audio_file_path, pipeline,
          segments, word_speakers, result, mode, pc,
          heuristic_speaker, heuristic_last_end, previous,
          flow, transcription_task, diarization_task,
          progress_tracker, upload_pc,
          is_recording, current_meeting_id, audio_queue, self_transcript,
          recording_thread, record_audio, process_audio_queue,
          stop_recording, returned, appended>>

\* the alignment call and the analysis tasks around it
alignment_vars == <<transcript, diarization_segments, audio_file_path, pipeline,
                    segments, word_speakers, result, mode, pc,
                    heuristic_speaker, heuristic_last_end, previous,
                    flow, transcription_task, diarization_task>>

\* the fields of the AudioProcessor, its threads, the stop_recording call,
\* and what the calls returned and the threads appended
recorder_vars == <<is_recording, current_meeting_id, audio_queue, self_transcript,
                   recording_thread, record_audio, process_audio_queue,
                   stop_recording, returned, appended>>

\* the state of process_uploaded_audio and of the recorder, which the
\* alignment does not touch
background_vars == <<progress_tracker, upload_pc, recorder_vars>>

(***************************************************************************)
(* Bounds of the model.                                                    *)
(***************************************************************************)
MaxTime == 2
MaxSegs == 2
MaxWords == 1
MaxTurns == 2
\* word-level runs on one segment (SpecWord)
MaxSplitWords == 3
\* assignment of one word (SpecAssign)
MaxAssignTurns == 3
\* heuristic runs (SpecHeur)
MaxHeurTime == 4
MaxHeurSegs == 3
\* uploads processed at the same time (SpecUpload)
MaxMeetings == 2
\* chunks a recording thread reads from the microphone (SpecRecorder)
MaxChunks == 2

(***************************************************************************)
(* Python values.                                                          *)
(***************************************************************************)
Absent == -1
NoSpeaker == "<no key>"
SpeakerIds == {"SPEAKER_00", "SPEAKER_01"}

Max(a, b) == IF a >= b THEN a ELSE b
Min(a, b) == IF a <= b THEN a ELSE b
Abs(a) == IF a >= 0 THEN a ELSE 0 - a

\* dict.get(key, default) on a record field
Get(value, default) == IF value = Absent THEN default ELSE value

RECURSIVE Join(_)
\* "".join(texts)
Join(texts) == IF texts = <<>> THEN <<>> ELSE Head(texts) \o Join(Tail(texts))

RECURSIVE LStrip(_)
LStrip(t) == IF t # <<>> /\ Head(t) = " " THEN LStrip(Tail(t)) ELSE t

RECURSIVE RStrip(_)
RStrip(t) ==
    IF t # <<>> /\ t[Len(t)] = " " THEN RStrip(SubSeq(t, 1, Len(t) - 1)) ELSE t

\* str.strip()
Strip(t) == RStrip(LStrip(t))

(***************************************************************************)
(* Word-speaker assignment (the loop over all_words).                      *)
(***************************************************************************)
\* variant of overlap_duration: the overlap as a percentage of the turn
overlap_duration_relative(a_start, a_end, seg_start, seg_end) ==
    IF seg_end > seg_start
    THEN (100 * Max(0, Min(a_end, seg_end) - Max(a_start, seg_start)))
             \div (seg_end - seg_start)
    ELSE 0

\* variant of overlap_duration: the difference is not clamped at 0
overlap_duration_unclamped(a_start, a_end, seg_start, seg_end) ==
    Min(a_end, seg_end) - Max(a_start, seg_start)

overlap_duration(a_start, a_end, seg_start, seg_end) ==
    Max(0, Min(a_end, seg_end) - Max(a_start, seg_start))

\* speaker_overlaps[speaker] = speaker_overlaps.get(speaker, 0) + d, on a
\* dict kept as the sequence of its items in insertion order
DictAdd(d, speaker, amount) ==
    IF \E k \in 1..Len(d) : d[k][1] = speaker
    THEN [k \in 1..Len(d) |->
            IF d[k][1] = speaker THEN <<speaker, d[k][2] + amount>> ELSE d[k]]
    ELSE Append(d, <<speaker, amount>>)

RECURSIVE speaker_overlaps(_, _, _, _)
\* the dict after the first n items of segs have been visited
speaker_overlaps(a_start, a_end, segs, n) ==
    IF n = 0 THEN <<>>
    ELSE LET d == speaker_overlaps(a_start, a_end, segs, n - 1)
             item == segs[n]
             ov == overlap_duration(a_start, a_end, item[1], item[2])
         IN  IF Len(item) # 3 THEN d
             ELSE IF ov > 0 THEN DictAdd(d, item[3], ov) ELSE d

\* variant of MaxItemKey: the last item holding the maximum
MaxItemKeyLast(d) ==
    LET k == CHOOSE i \in 1..Len(d) :
                 /\ \A j \in 1..Len(d) : d[j][2] <= d[i][2]
                 /\ \A j \in (i + 1)..Len(d) : d[j][2] < d[i][2]
    IN  d[k][1]

\* max(d.items(), key=lambda x: x[1])[0]: the first item holding the maximum
MaxItemKey(d) ==
    LET k == CHOOSE i \in 1..Len(d) :
                 /\ \A j \in 1..Len(d) : d[j][2] <= d[i][2]
                 /\ \A j \in 1..(i - 1) : d[j][2] < d[i][2]
    IN  d[k][1]

\* Twice the centre of an interval: (start + end) / 2 is a half-integer, and
\* distances between centres are compared, so both sides are doubled.
Center2(start, end) == start + end

RECURSIVE NearestScanFromStart(_, _, _)
\* variant of NearestScan: distance to the start of the turn, not its centre
NearestScanFromStart(w_center2, segs, n) ==
    IF n = 0 THEN <<Absent, "Unknown">>
    ELSE LET prev == NearestScanFromStart(w_center2, segs, n - 1)
             item == segs[n]
             distance == Abs(w_center2 - 2 * item[1])
         IN  IF Len(item) # 3 THEN prev
             ELSE IF prev[1] = Absent \/ distance < prev[1]
                  THEN <<distance, item[3]>>
                  ELSE prev

RECURSIVE NearestScanLast(_, _, _)
\* variant of NearestScan: `distance <= min_distance`, a later turn at the
\* same distance replaces the earlier one
NearestScanLast(w_center2, segs, n) ==
    IF n = 0 THEN <<Absent, "Unknown">>
    ELSE LET prev == NearestScanLast(w_center2, segs, n - 1)
             item == segs[n]
             distance == Abs(w_center2 - Center2(item[1], item[2]))
         IN  IF Len(item) # 3 THEN prev
             ELSE IF prev[1] = Absent \/ distance <= prev[1]
                  THEN <<distance, item[3]>>
                  ELSE prev

RECURSIVE NearestScan(_, _, _)
\* <<min_distance, nearest_speaker>> after the first n items; a distance of
\* Absent stands for float('inf')
NearestScan(w_center2, segs, n) ==
    IF n = 0 THEN <<Absent, "Unknown">>
    ELSE LET prev == NearestScan(w_center2, segs, n - 1)
             item == segs[n]
             distance == Abs(w_center2 - Center2(item[1], item[2]))
         IN  IF Len(item) # 3 THEN prev
             ELSE IF prev[1] = Absent \/ distance < prev[1]
                  THEN <<distance, item[3]>>
                  ELSE prev

nearest_speaker(w_start, w_end, segs) ==
    NearestScan(Center2(w_start, w_end), segs, Len(segs))[2]

best_speaker(w_start, w_end, segs) ==
    LET d == speaker_overlaps(w_start, w_end, segs, Len(segs))
    IN  IF d # <<>> THEN MaxItemKey(d) ELSE nearest_speaker(w_start, w_end, segs)

AttributedWord(word, segs) ==
    [word |-> word.word, start |-> word.start, end |-> word.end,
     speaker |-> best_speaker(word.start, word.end, segs),
     probability |-> word.probability]

(***************************************************************************)
(* Records.  An entry is a transcript dict; the keys a caller did not set  *)
(* hold Absent (NoSpeaker for "speaker").                                  *)
(***************************************************************************)
Entry(start, end, start_time, chunk_duration, text, confidence, speaker, words) ==
    [start |-> start, end |-> end, start_time |-> start_time,
     chunk_duration |-> chunk_duration, text |-> text,
     confidence |-> confidence, speaker |-> speaker, words |-> words]

\* variant of CopyWithSpeaker: the record is rebuilt without its duration
CopyWithoutDuration(entry, speaker) ==
    [entry EXCEPT !.speaker = speaker, !.chunk_duration = Absent]

\* entry.copy() followed by new_entry["speaker"] = speaker
CopyWithSpeaker(entry, speaker) == [entry EXCEPT !.speaker = speaker]

\* variant of SubSegment: the end is taken from the first word of the run
SubSegmentFirstWordEnd(current_speaker, current_words) ==
    Entry(current_words[1].start, current_words[1].end,
          Absent, Absent,
          Strip(Join([k \in 1..Len(current_words) |-> current_words[k].word])),
          Absent, current_speaker, current_words)

\* variant of SubSegment: the joined text is not stripped
SubSegmentUnstripped(current_speaker, current_words) ==
    Entry(current_words[1].start, current_words[Len(current_words)].end,
          Absent, Absent,
          Join([k \in 1..Len(current_words) |-> current_words[k].word]),
          Absent, current_speaker, current_words)

\* the dict literal appended for one run of a split
SubSegment(current_speaker, current_words) ==
    Entry(current_words[1].start, current_words[Len(current_words)].end,
          Absent, Absent,
          Strip(Join([k \in 1..Len(current_words) |-> current_words[k].word])),
          Absent, current_speaker, current_words)

\* "words" in entry and entry["words"]
HasWordData(entry) == entry.words # <<>>

has_words(t) == \E i \in 1..Len(t) : HasWordData(t[i])

\* entry["text"], entry["start"], entry["end"] of the placeholder word raise
\* KeyError on an entry without the key
PlaceholderRaises(entry) == entry.start = Absent \/ entry.end = Absent

WordLevelRaises(t) ==
    \E i \in 1..Len(t) : ~HasWordData(t[i]) /\ PlaceholderRaises(t[i])

PlaceholderWord(entry) ==
    [word |-> entry.text, start |-> entry.start, end |-> entry.end,
     probability |-> Get(entry.confidence, 0)]

RECURSIVE all_words(_, _)
\* the flat word list after the first n entries
all_words(t, n) ==
    IF n = 0 THEN <<>>
    ELSE all_words(t, n - 1) \o
         (IF HasWordData(t[n]) THEN t[n].words ELSE <<PlaceholderWord(t[n])>>)

WordSpeakers(t, segs) ==
    LET aw == all_words(t, Len(t))
    IN  [k \in 1..Len(aw) |-> AttributedWord(aw[k], segs)]

(***************************************************************************)
(* Hybrid segmentation (the loop over transcript in word-level mode).      *)
(***************************************************************************)
entry_start(entry) == Get(entry.start, 0)
entry_end(entry) == Get(entry.end, entry_start(entry) + 1)

SelectsWord(entry, w) == w.end > entry_start(entry) /\ w.start < entry_end(entry)

segment_words(entry, ws) == SelectSeq(ws, LAMBDA w : SelectsWord(entry, w))

speakers_in_segment(sw) == {sw[k].speaker : k \in 1..Len(sw)}

RECURSIVE SplitScanEveryWord(_, _)
\* variant of SplitScan: the run is closed at every word, also when the
\* speaker stays the same
SplitScanEveryWord(sw, n) ==
    IF n = 1 THEN [speaker |-> sw[1].speaker, words |-> <<sw[1]>>, out |-> <<>>]
    ELSE LET st == SplitScanEveryWord(sw, n - 1)
             word == sw[n]
         IN  [speaker |-> word.speaker, words |-> <<word>>,
              out |-> Append(st.out, SubSegment(st.speaker, st.words))]

RECURSIVE SplitScan(_, _)
\* [speaker, words, out]: current_speaker, current_words and the sub-segments
\* appended so far, after segment_words[1..n] have been visited
SplitScan(sw, n) ==
    IF n = 1 THEN [speaker |-> sw[1].speaker, words |-> <<sw[1]>>, out |-> <<>>]
    ELSE LET st == SplitScan(sw, n - 1)
             word == sw[n]
         IN  IF word.speaker # st.speaker
             THEN [speaker |-> word.speaker, words |-> <<word>>,
                   out |-> Append(st.out, SubSegment(st.speaker, st.words))]
             ELSE [st EXCEPT !.words = Append(st.words, word)]

\* variant of SplitSegment: the final run is not flushed
SplitSegmentNoFlush(sw) == SplitScan(sw, Len(sw)).out

SplitSegment(sw) ==
    LET st == SplitScan(sw, Len(sw))
    IN  IF st.words # <<>>
        THEN Append(st.out, SubSegment(st.speaker, st.words))
        ELSE st.out

\* variant of HybridEntry: an entry whose words share one speaker is rebuilt
\* from its words
HybridEntryFromWords(entry, ws) ==
    LET sw == segment_words(entry, ws)
    IN  IF sw = <<>> THEN <<CopyWithSpeaker(entry, "Unknown")>>
        ELSE IF Cardinality(speakers_in_segment(sw)) = 1
             THEN <<SubSegment(sw[1].speaker, sw)>>
             ELSE SplitSegment(sw)

\* variant of HybridEntry: an entry that selects no word appends nothing
HybridEntryDropEmpty(entry, ws) ==
    LET sw == segment_words(entry, ws)
    IN  IF sw = <<>> THEN <<>>
        ELSE IF Cardinality(speakers_in_segment(sw)) = 1
             THEN <<CopyWithSpeaker(entry, sw[1].speaker)>>
             ELSE SplitSegment(sw)

\* what one entry appends to new_transcript
HybridEntry(entry, ws) ==
    LET sw == segment_words(entry, ws)
    IN  IF sw = <<>> THEN <<CopyWithSpeaker(entry, "Unknown")>>
        ELSE IF Cardinality(speakers_in_segment(sw)) = 1
             THEN <<CopyWithSpeaker(entry, sw[1].speaker)>>
             ELSE SplitSegment(sw)

RECURSIVE new_transcript(_, _, _)
new_transcript(t, ws, n) ==
    IF n = 0 THEN <<>>
    ELSE new_transcript(t, ws, n - 1) \o HybridEntry(t[n], ws)

WordLevel(t, segs) == new_transcript(t, WordSpeakers(t, segs), Len(t))

(***************************************************************************)
(* Segment-level alignment (legacy path).                                  *)
(***************************************************************************)
legacy_entry_end(entry) ==
    Get(entry.end, entry_start(entry) + Get(entry.chunk_duration, 0))

SegmentLevelSpeaker(entry, segs) ==
    LET d == speaker_overlaps(entry_start(entry), legacy_entry_end(entry),
                              segs, Len(segs))
    IN  IF d # <<>> THEN MaxItemKey(d) ELSE "Unknown"

SegmentLevel(t, segs) ==
    [i \in 1..Len(t) |-> CopyWithSpeaker(t[i], SegmentLevelSpeaker(t[i], segs))]

(***************************************************************************)
(* _heuristic_diarization.                                                 *)
(***************************************************************************)
GapThreshold == 2

Toggle(current_speaker) ==
    IF current_speaker = "Speaker 1" THEN "Speaker 2" ELSE "Speaker 1"

\* variant of HeuristicStart: the locals keep what the previous call left
HeuristicStartCarried ==
    [speaker |-> heuristic_speaker, last_end_time |-> heuristic_last_end,
     out |-> <<>>]

\* updated_transcript = [], current_speaker = "Speaker 1", last_end_time = 0:
\* the locals of a call before its loop
HeuristicStart == [speaker |-> "Speaker 1", last_end_time |-> 0, out |-> <<>>]

RECURSIVE HeuristicScan(_, _)
\* [speaker, last_end_time, out] after the first n entries
HeuristicScan(t, n) ==
    IF n = 0 THEN HeuristicStart
    ELSE LET st == HeuristicScan(t, n - 1)
             start_time == Get(t[n].start_time, 0)
             current_speaker ==
                 IF start_time - st.last_end_time > GapThreshold
                 THEN Toggle(st.speaker) ELSE st.speaker
         IN  [speaker |-> current_speaker,
              last_end_time |-> start_time + Get(t[n].chunk_duration, 0),
              out |-> Append(st.out, CopyWithSpeaker(t[n], current_speaker))]

\* the locals current_speaker and last_end_time when
\* _heuristic_diarization(t) returns
HeuristicLocals(t) ==
    LET st == HeuristicScan(t, Len(t))
    IN  <<st.speaker, st.last_end_time>>

_heuristic_diarization(t) == IF t = <<>> THEN t ELSE HeuristicScan(t, Len(t)).out

(***************************************************************************)
(* The records the callers pass in.                                        *)
(***************************************************************************)
Digit == <<"1", "2", "3", "4", "5", "6">>

\* faster-whisper word tokens carry their leading blank; the j-th word of
\* the i-th segment is named by its position
WordText(i, j) == <<" ", Digit[i], Digit[j]>>

\* segment.text.strip()
SegText(i) == <<"S", Digit[i]>>

Intervals(T) == {iv \in (0..T) \X (0..T) : iv[1] <= iv[2]}

SortedByStart(q) == \A k \in 1..(Len(q) - 1) : q[k][1] <= q[k + 1][1]

\* the word timings of one segment: sorted by start
WordTimings(T, n) ==
    {q \in UNION {[1..k -> Intervals(T)] : k \in 0..n} : SortedByStart(q)}

WordsOf(i, q) ==
    [j \in 1..Len(q) |->
        [word |-> WordText(i, j), start |-> q[j][1], end |-> q[j][2],
         probability |-> 1]]

\* transcribe_audio_file: start/end/text/confidence/words
RemoteSegment(i, iv, q) ==
    Entry(iv[1], iv[2], Absent, Absent, SegText(i), 2, NoSpeaker, WordsOf(i, q))

\* process_uploaded_audio: start_time/chunk_duration/speaker/words, no
\* "start", "end" or "confidence" key
LocalEntry(i, iv, q) ==
    Entry(Absent, Absent, iv[1], iv[2] - iv[1], SegText(i), Absent, "Unknown",
          WordsOf(i, q))

Shapes == {"remote", "local"}

ShapedEntry(shape, i, iv, q) ==
    IF shape = "remote" THEN RemoteSegment(i, iv, q) ELSE LocalEntry(i, iv, q)

\* segment timings in recognizer order (non-decreasing start), each with the
\* timings of its words
SegmentTimings(T, nsegs, nwords) ==
    {q \in UNION {[1..k -> Intervals(T) \X WordTimings(T, nwords)] : k \in 0..nsegs} :
        \A k \in 1..(Len(q) - 1) : q[k][1][1] <= q[k + 1][1][1]}

Transcripts(shape, T, nsegs, nwords) ==
    {[i \in 1..Len(q) |-> ShapedEntry(shape, i, q[i][1], q[i][2])] :
        q \in SegmentTimings(T, nsegs, nwords)}

\* diarize_audio_file: (turn.start, turn.end, speaker) with turn.start < turn.end
Turns(T) == {<<iv[1], iv[2], sp>> : iv \in {x \in Intervals(T) : x[1] < x[2]},
                                     sp \in SpeakerIds}

TurnSeqs(T, n) == UNION {[1..k -> Turns(T)] : k \in 0..n}

(***************************************************************************)
(* The two model invocations of a processing pipeline.  A task is idle,    *)
(* running, or done with the value the invocation returned.                *)
(***************************************************************************)
Idle == [state |-> "idle", value |-> <<>>]
Running == [state |-> "running", value |-> <<>>]
Done(value) == [state |-> "done", value |-> value]

\* variant of Completed: the caller goes on while the invocation still runs
CompletedOrRunning(task) == task.state \in {"running", "done"}

\* "x = await asyncio.to_thread(f)" and "x = f()" go on when f has returned
Completed(task) == task.state = "done"

(***************************************************************************)
(* diarize_transcript, one action per path through it.                     *)
(***************************************************************************)
\* the values segments can hold after "if not segments and audio_file_path
\* and self.pipeline": what diarize_audio_file returns, or the argument
Resolved ==
    IF diarization_segments = <<>> /\ audio_file_path /\ pipeline
    THEN TurnSeqs(MaxTime, MaxTurns) ELSE {diarization_segments}

\* variant of EntryAfterLabelling: the label is written to the entry itself
EntryLabelledInPlace(entry, speaker) == [entry EXCEPT !.speaker = speaker]

\* the input entry after "new_entry = entry.copy()" and
\* "new_entry['speaker'] = speaker": the write goes to the copy
EntryAfterLabelling(entry, speaker) == entry

\* the input transcript when the call returns out: the entries that were
\* copied and labelled, and the entries that were split (nothing is written)
transcript_after(t, out) ==
    [i \in 1..Len(t) |->
        LET copies == {k \in 1..Len(out) :
                          [out[k] EXCEPT !.speaker = t[i].speaker] = t[i]}
        IN  IF copies = {} THEN t[i]
            ELSE EntryAfterLabelling(t[i], out[CHOOSE k \in copies : TRUE].speaker)]

Return(m, segs, ws, out) ==
    /\ pc' = "done"
    /\ mode' = m
    /\ segments' = segs
    /\ word_speakers' = ws
    /\ result' = out
    /\ LET locals == IF m \in {"heuristic", "except"}
                      THEN HeuristicLocals(transcript)
                      ELSE <<heuristic_speaker, heuristic_last_end>>
       IN  heuristic_speaker' = locals[1] /\ heuristic_last_end' = locals[2]
    /\ transcript' = transcript_after(transcript, out)
    /\ UNCHANGED <<diarization_segments, audio_file_path, pipeline,
                   previous, flow, transcription_task, diarization_task,
                   background_vars>>

ReturnEmpty ==
    /\ pc = "call"
    /\ transcript = <<>>
    /\ Return("empty", <<>>, <<>>, <<>>)

HeuristicPath ==
    /\ pc = "call"
    /\ transcript # <<>>
    /\ \E segs \in Resolved :
          /\ segs = <<>>
          /\ Return("heuristic", <<>>, <<>>, _heuristic_diarization(transcript))

WordLevelPath ==
    /\ pc = "call"
    /\ transcript # <<>>
    /\ \E segs \in Resolved :
              /\ segs # <<>>
              /\ has_words(transcript)
              /\ ~WordLevelRaises(transcript)
              /\ Return("word", segs, WordSpeakers(transcript, segs),
                        WordLevel(transcript, segs))

SegmentLevelPath ==
    /\ pc = "call"
    /\ transcript # <<>>
    /\ \E segs \in Resolved :
              /\ segs # <<>>
              /\ ~has_words(transcript)
              /\ Return("segment", segs, <<>>, SegmentLevel(transcript, segs))

\* variant of OnException: no handler, the exception leaves the call
OnExceptionReraise(t) == [mode |-> "raised", out |-> <<>>]

\* variant of OnException: the segments handled before the exception are
\* left out of the heuristic labelling
OnExceptionFromFailure(t) ==
    LET failed == CHOOSE i \in 1..Len(t) :
                      /\ ~HasWordData(t[i]) /\ PlaceholderRaises(t[i])
                      /\ \A j \in 1..(i - 1) :
                             HasWordData(t[j]) \/ ~PlaceholderRaises(t[j])
    IN  [mode |-> "except",
         out |-> _heuristic_diarization(SubSeq(t, failed, Len(t)))]

\* except Exception as e: return self._heuristic_diarization(transcript)
OnException(t) == [mode |-> "except", out |-> _heuristic_diarization(t)]

ExceptPath ==
    /\ pc = "call"
    /\ transcript # <<>>
    /\ \E segs \in Resolved :
              /\ segs # <<>>
              /\ has_words(transcript)
              /\ WordLevelRaises(transcript)
              /\ LET handled == OnException(transcript)
                 IN  Return(handled.mode, segs, <<>>, handled.out)

\* the meetings uploaded, and the entries of progress_tracker
Meetings == 1..MaxMeetings

None == "<None>"
NoEntry == [progress |-> Absent, status |-> None, error |-> None]

Progress(progress, status, error) ==
    [progress |-> progress, status |-> status, error |-> error]

\* the activations of _process_audio_queue: the background thread that
\* start_recording(m) starts, and the call inside stop_recording(m)
Procs == {<<kind, m>> : kind \in {"thread", "stop"}, m \in Meetings}

NotStarted == [pc |-> "none", made |-> 0]
NotActive == [pc |-> "none", buffer |-> {}, then |-> "none"]
NotStopping == [pc |-> "idle", meeting_id |-> Absent, transcript |-> <<>>]
NotReturned == [done |-> FALSE, transcript |-> <<>>]

\* AudioProcessor.__init__, and no call made yet
NoRecording ==
    /\ is_recording = FALSE
    /\ current_meeting_id = Absent
    /\ audio_queue = <<>>
    /\ self_transcript = <<>>
    /\ recording_thread = Absent
    /\ record_audio = [m \in Meetings |-> NotStarted]
    /\ process_audio_queue = [p \in Procs |-> NotActive]
    /\ stop_recording = NotStopping
    /\ returned = [m \in Meetings |-> NotReturned]
    /\ appended = <<>>

\* progress_tracker = {} and no background task added yet
NoUploads ==
    /\ progress_tracker = [m \in Meetings |-> NoEntry]
    /\ upload_pc = [m \in Meetings |-> "idle"]

Call(t, given, audio, pipe) ==
    /\ transcript = t
    /\ diarization_segments = given
    /\ audio_file_path = audio
    /\ pipeline = pipe
    /\ segments = <<>>
    /\ word_speakers = <<>>
    /\ result = <<>>
    /\ mode = "none"
    /\ pc = "call"
    /\ heuristic_speaker = "Speaker 1"
    /\ heuristic_last_end = 0
    /\ previous = <<>>
    /\ flow = "none"
    /\ transcription_task = Idle
    /\ diarization_task = Idle
    /\ NoUploads
    /\ NoRecording

\* process_uploaded_audio passes local entries and no audio_file_path;
\* ModalWorker.process_audio passes remote segments and the audio file, which
\* is read only when no turns are passed
Init ==
    \E shape \in Shapes :
    \E t \in Transcripts(shape, MaxTime, MaxSegs, MaxWords) :
    \E given \in TurnSeqs(MaxTime, MaxTurns) :
    \E audio \in BOOLEAN, pipe \in BOOLEAN :
        /\ (shape = "local" \/ given # <<>>) => ~audio /\ ~pipe
        /\ Call(t, given, audio, pipe)

Next ==
    \/ ReturnEmpty
    \/ HeuristicPath
    \/ WordLevelPath
    \/ SegmentLevelPath
    \/ ExceptPath

Spec == Init /\ [][Next]_vars

(***************************************************************************)
(* Word-level alignment of one recognized segment with up to               *)
(* MaxSplitWords words.                                                    *)
(***************************************************************************)
InitWord ==
    \E t \in Transcripts("remote", MaxTime, 1, MaxSplitWords) :
    \E given \in TurnSeqs(MaxTime, MaxTurns) :
        /\ t # <<>> /\ has_words(t) /\ given # <<>>
        /\ Call(t, given, FALSE, FALSE)

SpecWord == InitWord /\ [][WordLevelPath]_vars

(***************************************************************************)
(* Assignment of one word against up to MaxAssignTurns turns; the segment  *)
(* spans its word, as the recognizer emits it.                             *)
(***************************************************************************)
InitAssign ==
    \E iv \in Intervals(MaxTime) :
    \E given \in TurnSeqs(MaxTime, MaxAssignTurns) :
        /\ given # <<>>
        /\ Call(<<RemoteSegment(1, iv, <<iv>>)>>, given, FALSE, FALSE)

SpecAssign == InitAssign /\ [][WordLevelPath]_vars

(***************************************************************************)
(* Heuristic runs: no turns, no diarization pipeline.                      *)
(***************************************************************************)
InitHeur ==
    \E shape \in Shapes :
    \E t \in Transcripts(shape, MaxHeurTime, MaxHeurSegs, 0) :
        /\ t # <<>>
        /\ Call(t, <<>>, FALSE, FALSE)

SpecHeur == InitHeur /\ [][HeuristicPath]_vars

(***************************************************************************)
(* The same diarizer object (get_diarizer returns one instance) is called  *)
(* a second time with the same transcript and no turns.                    *)
(***************************************************************************)
HeuristicRepeat ==
    /\ pc = "done"
    /\ mode = "heuristic"
    /\ pc' = "repeated"
    /\ previous' = result
    /\ result' = _heuristic_diarization(transcript)
    /\ heuristic_speaker' = HeuristicLocals(transcript)[1]
    /\ heuristic_last_end' = HeuristicLocals(transcript)[2]
    /\ UNCHANGED <<transcript, diarization_segments, audio_file_path, pipeline,
                   segments, word_speakers, mode,
                   flow, transcription_task, diarization_task,
                   background_vars>>

SpecRepeat == InitHeur /\ [][HeuristicPath \/ HeuristicRepeat]_vars

(***************************************************************************)
(* The processing pipelines: process_uploaded_audio (local) and            *)
(* ModalWorker.process_audio (remote) run the recognizer and the           *)
(* diarization model, then call diarize_transcript.                        *)
(***************************************************************************)
\* transcribe_file returns segments, or none when it fails
TranscriptionEnds ==
    /\ transcription_task = Running
    /\ \E segs \in Transcripts("remote", MaxTime, MaxSegs, MaxWords) :
          transcription_task' = Done(segs)
    /\ UNCHANGED <<transcript, diarization_segments, audio_file_path, pipeline,
                   segments, word_speakers, result, mode, pc,
                   heuristic_speaker, heuristic_last_end, previous,
                   flow, diarization_task,
                   background_vars>>

\* diarize_audio_file returns turns, or none without a pipeline or when it
\* fails
DiarizationEnds ==
    /\ diarization_task = Running
    /\ \E turns \in TurnSeqs(MaxTime, MaxTurns) :
          /\ ~pipeline => turns = <<>>
          /\ diarization_task' = Done(turns)
    /\ UNCHANGED <<transcript, diarization_segments, audio_file_path, pipeline,
                   segments, word_speakers, result, mode, pc,
                   heuristic_speaker, heuristic_last_end, previous,
                   flow, transcription_task,
                   background_vars>>

\* the entry process_uploaded_audio builds from a recognized segment
merge_entry(segment) ==
    Entry(Absent, Absent, Get(segment.start, 0),
          Get(segment.end, 0) - Get(segment.start, 0), segment.text, Absent,
          "Unknown", segment.words)

\* the call of diarize_transcript begins
BeginAlignment(t, given, audio) ==
    /\ transcript' = t
    /\ diarization_segments' = given
    /\ audio_file_path' = audio
    /\ pc' = "call"
    /\ UNCHANGED <<pipeline, segments, word_speakers, result, mode,
                   heuristic_speaker, heuristic_last_end, previous,
                   flow, transcription_task, diarization_task,
                   background_vars>>

\* diarization_segments = await asyncio.to_thread(run_diarization): submit
LocalStartDiarization ==
    /\ flow = "local" /\ pc = "start"
    /\ diarization_task' = Running
    /\ pc' = "await_diarization"
    /\ UNCHANGED <<transcript, diarization_segments, audio_file_path, pipeline,
                   segments, word_speakers, result, mode,
                   heuristic_speaker, heuristic_last_end, previous,
                   flow, transcription_task,
                   background_vars>>

\* the await resumes, and
\* raw_transcript_segments = await asyncio.to_thread(run_transcription): submit
LocalStartTranscription ==
    /\ flow = "local" /\ pc = "await_diarization"
    /\ Completed(diarization_task)
    /\ diarization_segments' = diarization_task.value
    /\ transcription_task' = Running
    /\ pc' = "await_transcription"
    /\ UNCHANGED <<transcript, audio_file_path, pipeline,
                   segments, word_speakers, result, mode,
                   heuristic_speaker, heuristic_last_end, previous,
                   flow, diarization_task,
                   background_vars>>

\* the await resumes; with segments, the entries are built and
\* diarize_transcript is called
LocalMerge ==
    /\ flow = "local" /\ pc = "await_transcription"
    /\ Completed(transcription_task)
    /\ transcription_task.value # <<>>
    /\ LET segments_list == transcription_task.value
       IN  BeginAlignment([i \in 1..Len(segments_list) |-> merge_entry(segments_list[i])],
                          diarization_segments, FALSE)

\* the await resumes; without segments there is nothing to align
LocalNoTranscript ==
    /\ flow = "local" /\ pc = "await_transcription"
    /\ Completed(transcription_task)
    /\ transcription_task.value = <<>>
    /\ pc' = "skipped"
    /\ UNCHANGED <<transcript, diarization_segments, audio_file_path, pipeline,
                   segments, word_speakers, result, mode,
                   heuristic_speaker, heuristic_last_end, previous,
                   flow, transcription_task, diarization_task,
                   background_vars>>

\* transcript_result = self.transcriber.transcribe_file(tmp_path): call
RemoteStartTranscription ==
    /\ flow = "remote" /\ pc = "start"
    /\ transcription_task' = Running
    /\ pc' = "transcribing"
    /\ UNCHANGED <<transcript, diarization_segments, audio_file_path, pipeline,
                   segments, word_speakers, result, mode,
                   heuristic_speaker, heuristic_last_end, previous,
                   flow, diarization_task,
                   background_vars>>

\* the call returns, and
\* diarization_segments = self.diarizer.diarize_audio_file(tmp_path): call
RemoteStartDiarization ==
    /\ flow = "remote" /\ pc = "transcribing"
    /\ Completed(transcription_task)
    /\ diarization_task' = Running
    /\ pc' = "diarizing"
    /\ UNCHANGED <<transcript, diarization_segments, audio_file_path, pipeline,
                   segments, word_speakers, result, mode,
                   heuristic_speaker, heuristic_last_end, previous,
                   flow, transcription_task,
                   background_vars>>

\* the call returns, and diarize_transcript is called with the segments, the
\* turns and the audio file
RemoteAlign ==
    /\ flow = "remote" /\ pc = "diarizing"
    /\ Completed(diarization_task)
    /\ BeginAlignment(transcription_task.value, diarization_task.value, TRUE)

InitPipeline ==
    /\ flow \in {"local", "remote"}
    /\ pipeline \in BOOLEAN
    /\ transcript = <<>>
    /\ diarization_segments = <<>>
    /\ audio_file_path = FALSE
    /\ segments = <<>>
    /\ word_speakers = <<>>
    /\ result = <<>>
    /\ mode = "none"
    /\ pc = "start"
    /\ heuristic_speaker = "Speaker 1"
    /\ heuristic_last_end = 0
    /\ previous = <<>>
    /\ transcription_task = Idle
    /\ diarization_task = Idle
    /\ NoUploads
    /\ NoRecording

NextPipeline ==
    \/ LocalStartDiarization
    \/ LocalStartTranscription
    \/ LocalMerge
    \/ LocalNoTranscript
    \/ RemoteStartTranscription
    \/ RemoteStartDiarization
    \/ RemoteAlign
    \/ TranscriptionEnds
    \/ DiarizationEnds
    \/ ReturnEmpty
    \/ HeuristicPath
    \/ WordLevelPath
    \/ SegmentLevelPath
    \/ ExceptPath

SpecPipeline == InitPipeline /\ [][NextPipeline]_vars

(***************************************************************************)
(* process_uploaded_audio and its progress entry.  The handler is a        *)
(* background task of the upload endpoint, one per uploaded meeting; each  *)
(* task writes only progress_tracker[meeting_id].  Its steps follow the    *)
(* blocks of the handler; upload_pc[m] is the block the task of m is at.   *)
(***************************************************************************)
\* progress_tracker[meeting_id] = {...}; the task moves on to the block `to`
Track(m, entry, to) ==
    /\ progress_tracker' = [progress_tracker EXCEPT ![m] = entry]
    /\ upload_pc' = [upload_pc EXCEPT ![m] = to]
    /\ UNCHANGED <<alignment_vars, recorder_vars>>

\* the task moves on and writes no progress
Move(m, to) == Track(m, progress_tracker[m], to)

\* the `except Exception as e` of the inner try: error is str(e)
InnerExcept(m, message) == Track(m, Progress(0, "Failed", message), "ended")

\* the `except Exception as e` of the outer try: it prints, and writes nothing
OuterExcept(m) == Move(m, "ended")

\* the upload endpoint adds the task; its first statement writes progress 0
BeginProcessing(m) ==
    /\ upload_pc[m] = "idle"
    /\ Track(m, Progress(0, "Starting processing...", None), "setup")

\* the imports and the constructors of AudioProcessor, Summarizer and
\* EnhancedTranscriber, before the inner try, all succeed
SetupDone(m) ==
    /\ upload_pc[m] = "setup"
    /\ Move(m, "route")

\* one of them raises (pydub not importable, webrtcvad.Vad or
\* sr.Recognizer failing in a constructor): only the outer handler is around
SetupRaises(m) ==
    /\ upload_pc[m] = "setup"
    /\ OuterExcept(m)

\* config.USE_REMOTE_GPU: progress 20, then the remote call is awaited
RouteRemote(m) ==
    /\ upload_pc[m] = "route"
    /\ Track(m, Progress(20, "Uploading to Cloud GPU...", None), "remote")

\* the remote call returned a non-empty transcript: progress 80, then save
RemoteDone(m) ==
    /\ upload_pc[m] = "remote"
    /\ Track(m, Progress(80, "Cloud processing complete. Saving...", None),
             "save_entries")

\* local processing, by default or after the remote call raised or returned
\* nothing: progress 10, then the conversion
RouteLocal(m) ==
    /\ upload_pc[m] \in {"route", "remote"}
    /\ Track(m, Progress(10, "Converting audio format (Local)...", None),
             "convert")

\* the conversion succeeded (progress 15), or failed on a .wav upload;
\* progress 20, then run_diarization is awaited
ConvertDone(m) ==
    /\ upload_pc[m] = "convert"
    /\ Track(m, Progress(20, "Analyzing audio (Local Diarization & Transcription)...",
                         None), "diarization")

\* the conversion failed on an upload that is not a .wav: Failed, and return
ConvertFails(m) ==
    /\ upload_pc[m] = "convert"
    /\ Track(m, Progress(0, "Failed", "Audio conversion failed"), "ended")

\* await asyncio.to_thread(run_diarization) returned
DiarizationAwaited(m) ==
    /\ upload_pc[m] = "diarization"
    /\ Move(m, "transcription")

\* await asyncio.to_thread(run_transcription) returned; progress 80, then
\* with segments progress 85 and the alignment, then save
TranscriptionAwaited(m) ==
    /\ upload_pc[m] = "transcription"
    /\ \/ Track(m, Progress(85, "Assigning speakers to text...", None),
                "save_entries")
       \/ Track(m, Progress(80, "Analysis complete. Merging results...", None), "save_empty")

\* if transcript_entries: progress 90, save_transcript, the summary (its own
\* exceptions handled), progress 100; then the cleanup
SaveTranscript(m) ==
    /\ upload_pc[m] = "save_entries"
    /\ Track(m, Progress(100, "Completed", None), "ended")

\* else: save_summary, progress 100
SaveNoTranscript(m) ==
    /\ upload_pc[m] = "save_empty"
    /\ Track(m, Progress(100, "Completed (No transcript)", None), "ended")

\* a database call of the save block raises: the inner handler
SaveRaises(m) ==
    /\ upload_pc[m] \in {"save_entries", "save_empty"}
    /\ InnerExcept(m, "database error")

ProcessUploadedAudio(m) ==
    \/ BeginProcessing(m)
    \/ SetupDone(m)
    \/ SetupRaises(m)
    \/ RouteRemote(m)
    \/ RemoteDone(m)
    \/ RouteLocal(m)
    \/ ConvertDone(m)
    \/ ConvertFails(m)
    \/ DiarizationAwaited(m)
    \/ TranscriptionAwaited(m)
    \/ SaveTranscript(m)
    \/ SaveNoTranscript(m)
    \/ SaveRaises(m)

\* no alignment call is part of this specification: its variables stay as
\* constructed
InitUpload == Call(<<>>, <<>>, FALSE, FALSE)

NextUpload == \E m \in Meetings : ProcessUploadedAudio(m)

SpecUpload == InitUpload /\ [][NextUpload]_vars

\* the event loop runs every background task it was given until the task
\* returns, and every awaited thread returns
SpecUploadFair ==
    SpecUpload /\ \A m \in Meetings : WF_vars(ProcessUploadedAudio(m))

\* verify_progress.py: the poller breaks on progress >= 100 or a truthy error
PollerEnds(entry) ==
    \/ entry.progress >= 100
    \/ entry.error \notin {None, ""}

(***************************************************************************)
(* The recorder: AudioProcessor.start_recording, stop_recording, and the   *)
(* threads _record_audio and _process_audio_queue.  A chunk in the queue   *)
(* is the meeting whose recording thread read it; a buffer is the set of   *)
(* meetings whose chunks it holds.  self.transcript.append is one step.    *)
(* Meetings are started in order, each after the stop of the one before    *)
(* has returned; a stop_recording call for a meeting that is not being     *)
(* recorded returns [] and changes nothing.                                *)
(***************************************************************************)
Thread(m) == <<"thread", m>>
StopCall(m) == <<"stop", m>>

\* start_recording(meeting_id) while no meeting is recorded
StartRecording(m) ==
    /\ ~is_recording
    /\ stop_recording.pc = "idle"
    /\ record_audio[m].pc = "none"
    /\ \A k \in 1..(m - 1) : record_audio[k].pc # "none"
    /\ is_recording' = TRUE
    /\ current_meeting_id' = m
    /\ self_transcript' = <<>>
    /\ recording_thread' = m
    /\ record_audio' = [record_audio EXCEPT ![m].pc = "loop"]
    /\ process_audio_queue' =
           [process_audio_queue EXCEPT ![Thread(m)].pc = "while"]
    /\ UNCHANGED <<audio_queue, stop_recording, returned, appended,
                   alignment_vars, progress_tracker, upload_pc>>

\* _record_audio: `while self.is_recording` holds, stream.read returns
RecordRead(m) ==
    /\ record_audio[m].pc = "loop"
    /\ is_recording
    /\ record_audio[m].made < MaxChunks
    /\ record_audio' = [record_audio EXCEPT ![m].pc = "read"]
    /\ UNCHANGED <<is_recording, current_meeting_id, audio_queue,
                   self_transcript, recording_thread, process_audio_queue,
                   stop_recording, returned, appended,
                   alignment_vars, progress_tracker, upload_pc>>

\* self.audio_queue.put(data)
RecordPut(m) ==
    /\ record_audio[m].pc = "read"
    /\ audio_queue' = Append(audio_queue, m)
    /\ record_audio' = [record_audio EXCEPT ![m].pc = "loop",
                                            ![m].made = @ + 1]
    /\ UNCHANGED <<is_recording, current_meeting_id, self_transcript,
                   recording_thread, process_audio_queue,
                   stop_recording, returned, appended,
                   alignment_vars, progress_tracker, upload_pc>>

\* `while self.is_recording` fails: the stream is closed, the thread ends
RecordEnds(m) ==
    /\ record_audio[m].pc = "loop"
    /\ ~is_recording
    /\ record_audio' = [record_audio EXCEPT ![m].pc = "done"]
    /\ UNCHANGED <<is_recording, current_meeting_id, audio_queue,
                   self_transcript, recording_thread, process_audio_queue,
                   stop_recording, returned, appended,
                   alignment_vars, progress_tracker, upload_pc>>

\* an activation p of _process_audio_queue moves to `to` with buffer b
Step(p, to, b, then) ==
    process_audio_queue' =
        [process_audio_queue EXCEPT ![p] = [pc |-> to, buffer |-> b, then |-> then]]

\* `while self.is_recording or not self.audio_queue.empty()`
ProcessWhile(p) ==
    /\ process_audio_queue[p].pc = "while"
    /\ Step(p, IF is_recording \/ audio_queue # <<>> THEN "collect" ELSE "final",
            process_audio_queue[p].buffer, "none")
    /\ UNCHANGED <<is_recording, current_meeting_id, audio_queue,
                   self_transcript, recording_thread, record_audio,
                   stop_recording, returned, appended,
                   alignment_vars, progress_tracker, upload_pc>>

\* data = self.audio_queue.get(timeout=0.1); buffer.append(data)
ProcessGet(p) ==
    /\ process_audio_queue[p].pc = "collect"
    /\ audio_queue # <<>>
    /\ audio_queue' = Tail(audio_queue)
    /\ Step(p, "collect",
            process_audio_queue[p].buffer \cup {Head(audio_queue)}, "none")
    /\ UNCHANGED <<is_recording, current_meeting_id,
                   self_transcript, recording_thread, record_audio,
                   stop_recording, returned, appended,
                   alignment_vars, progress_tracker, upload_pc>>

\* the collecting loop ends, after chunk_timeout or with nothing to wait
\* for: `if buffer:` starts transcribe_enhanced
ProcessCollected(p) ==
    /\ process_audio_queue[p].pc = "collect"
    /\ Step(p, IF process_audio_queue[p].buffer # {} THEN "transcribe" ELSE "while",
            process_audio_queue[p].buffer, "none")
    /\ UNCHANGED <<is_recording, current_meeting_id, audio_queue,
                   self_transcript, recording_thread, record_audio,
                   stop_recording, returned, appended,
                   alignment_vars, progress_tracker, upload_pc>>

\* transcribe_enhanced returned: a sentence to append, or text to keep
\* buffering, silence, or an exception that is printed
ProcessTranscribed(p) ==
    /\ process_audio_queue[p].pc = "transcribe"
    /\ \/ Step(p, "append", process_audio_queue[p].buffer, "while")
       \/ Step(p, "while", process_audio_queue[p].buffer, "none")
    /\ UNCHANGED <<is_recording, current_meeting_id, audio_queue,
                   self_transcript, recording_thread, record_audio,
                   stop_recording, returned, appended,
                   alignment_vars, progress_tracker, upload_pc>>

\* the transcript entry of an activation: its timestamp orders the entries,
\* by and audio tell which activation appended it and from whose audio
TranscriptEntry(p) ==
    [speaker |-> "Speaker 1", timestamp |-> Len(appended) + 1,
     by |-> p, audio |-> process_audio_queue[p].buffer]

\* the meetings whose stop_recording call has returned
ReturnedMeetings == {m \in Meetings : returned[m].done}

\* self.transcript.append(transcript_entry); buffer = []
ProcessAppend(p) ==
    /\ process_audio_queue[p].pc = "append"
    /\ self_transcript' = Append(self_transcript, TranscriptEntry(p))
    /\ appended' = Append(appended, [entry |-> TranscriptEntry(p),
                                     after |-> ReturnedMeetings])
    /\ Step(p, process_audio_queue[p].then, {}, "none")
    /\ UNCHANGED <<is_recording, current_meeting_id, audio_queue,
                   recording_thread, record_audio,
                   stop_recording, returned,
                   alignment_vars, progress_tracker, upload_pc>>

\* after the loop: `if buffer and self.transcript:` transcribes what is left
\* and appends it unless the text is blank
ProcessFinal(p) ==
    /\ process_audio_queue[p].pc = "final"
    /\ \/ /\ process_audio_queue[p].buffer # {} /\ self_transcript # <<>>
          /\ Step(p, "append", process_audio_queue[p].buffer, "done")
       \/ Step(p, "done", process_audio_queue[p].buffer, "none")
    /\ UNCHANGED <<is_recording, current_meeting_id, audio_queue,
                   self_transcript, recording_thread, record_audio,
                   stop_recording, returned, appended,
                   alignment_vars, progress_tracker, upload_pc>>

\* stop_recording(meeting_id) for the meeting being recorded:
\* self.is_recording = False
StopBegins(m) ==
    /\ stop_recording.pc = "idle"
    /\ is_recording /\ current_meeting_id = m
    /\ is_recording' = FALSE
    /\ stop_recording' = [pc |-> "join", meeting_id |-> m, transcript |-> <<>>]
    /\ UNCHANGED <<current_meeting_id, audio_queue, self_transcript,
                   recording_thread, record_audio, process_audio_queue,
                   returned, appended,
                   alignment_vars, progress_tracker, upload_pc>>

\* self.recording_thread.join(timeout=5): the recording thread, which leaves
\* its loop within one chunk, has ended; then self._process_audio_queue()
StopJoined ==
    /\ stop_recording.pc = "join"
    /\ record_audio[recording_thread].pc = "done"
    /\ stop_recording' = [stop_recording EXCEPT !.pc = "process"]
    /\ process_audio_queue' =
           [process_audio_queue EXCEPT ![StopCall(stop_recording.meeting_id)].pc = "while"]
    /\ UNCHANGED <<is_recording, current_meeting_id, audio_queue,
                   self_transcript, recording_thread, record_audio,
                   returned, appended,
                   alignment_vars, progress_tracker, upload_pc>>

\* self._process_audio_queue() returned; transcript = self.transcript.copy()
StopCopies ==
    /\ stop_recording.pc = "process"
    /\ process_audio_queue[StopCall(stop_recording.meeting_id)].pc = "done"
    /\ stop_recording' = [stop_recording EXCEPT !.pc = "reset",
                                                !.transcript = self_transcript]
    /\ UNCHANGED <<is_recording, current_meeting_id, audio_queue,
                   self_transcript, recording_thread, record_audio,
                   process_audio_queue, returned, appended,
                   alignment_vars, progress_tracker, upload_pc>>

\* self.transcript = []
StopResets ==
    /\ stop_recording.pc = "reset"
    /\ self_transcript' = <<>>
    /\ stop_recording' = [stop_recording EXCEPT !.pc = "return"]
    /\ UNCHANGED <<is_recording, current_meeting_id, audio_queue,
                   recording_thread, record_audio,
                   process_audio_queue, returned, appended,
                   alignment_vars, progress_tracker, upload_pc>>

\* self.current_meeting_id = None; return transcript
StopReturns ==
    /\ stop_recording.pc = "return"
    /\ current_meeting_id' = Absent
    /\ returned' = [returned EXCEPT ![stop_recording.meeting_id] =
                           [done |-> TRUE, transcript |-> stop_recording.transcript]]
    /\ stop_recording' = NotStopping
    /\ UNCHANGED <<is_recording, audio_queue, self_transcript,
                   recording_thread, record_audio,
                   process_audio_queue, appended,
                   alignment_vars, progress_tracker, upload_pc>>

InitRecorder == Call(<<>>, <<>>, FALSE, FALSE)

NextRecorder ==
    \/ \E m \in Meetings : StartRecording(m)
    \/ \E m \in Meetings : RecordRead(m)
    \/ \E m \in Meetings : RecordPut(m)
    \/ \E m \in Meetings : RecordEnds(m)
    \/ \E p \in Procs : ProcessWhile(p)
    \/ \E p \in Procs : ProcessGet(p)
    \/ \E p \in Procs : ProcessCollected(p)
    \/ \E p \in Procs : ProcessTranscribed(p)
    \/ \E p \in Procs : ProcessAppend(p)
    \/ \E p \in Procs : ProcessFinal(p)
    \/ \E m \in Meetings : StopBegins(m)
    \/ StopJoined
    \/ StopCopies
    \/ StopResets
    \/ StopReturns

SpecRecorder == InitRecorder /\ [][NextRecorder]_vars


(***************************************************************************)
(* Calls with a malformed interval: some segment, word or turn has         *)
(* end < start.  diarize_transcript is handed one recognized segment with  *)
(* at most one word, and turns.                                            *)
(***************************************************************************)
AnyIntervals(T) == (0..T) \X (0..T)

AnyTurnSeqs(T, n) ==
    UNION {[1..k -> {<<iv[1], iv[2], sp>> : iv \in AnyIntervals(T), sp \in SpeakerIds}] :
              k \in 0..n}

Reversed(start, end) == end < start

Malformed(t, segs) ==
    \/ \E i \in 1..Len(t) :
          \/ Reversed(t[i].start, t[i].end)
          \/ \E j \in 1..Len(t[i].words) :
                Reversed(t[i].words[j].start, t[i].words[j].end)
    \/ \E k \in 1..Len(segs) : Reversed(segs[k][1], segs[k][2])

InitMalformed ==
    \E iv \in AnyIntervals(MaxTime) :
    \E q \in {<<>>} \cup {<<w>> : w \in AnyIntervals(MaxTime)} :
    \E given \in AnyTurnSeqs(MaxTime, MaxTurns) :
        /\ given # <<>>
        /\ Malformed(<<RemoteSegment(1, iv, q)>>, given)
        /\ Call(<<RemoteSegment(1, iv, q)>>, given, FALSE, FALSE)

SpecMalformed == InitMalformed /\ [][WordLevelPath \/ SegmentLevelPath]_vars

(***************************************************************************)
(* Properties.                                                             *)
(***************************************************************************)
Returned == pc = "done"

\* the recognized boundaries of a segment, in either record shape
SegStart(entry) == IF entry.start # Absent THEN entry.start ELSE entry.start_time
SegEnd(entry) ==
    IF entry.end # Absent THEN entry.end
    ELSE entry.start_time + entry.chunk_duration

SameWord(a, b) == a.word = b.word /\ a.start = b.start /\ a.end = b.end

\* C1: on a non-empty segment sequence the output is exactly the word-level
\* hybrid result when turns are non-empty and some segment has words, exactly
\* the segment-level result when turns are non-empty and no segment has
\* words, and exactly the heuristic result when there are no turns.
C1_DispatchSelectsOneStrategy ==
    (Returned /\ transcript # <<>>) =>
        /\ (segments # <<>> /\ has_words(transcript))
              => result = WordLevel(transcript, segments)
        /\ (segments # <<>> /\ ~has_words(transcript))
              => result = SegmentLevel(transcript, segments)
        /\ (segments = <<>>) => result = _heuristic_diarization(transcript)

\* the (output segment, position) pairs holding a given word
Holders(w) ==
    {kp \in UNION {{<<k, p>> : p \in 1..Len(result[k].words)} : k \in 1..Len(result)} :
        SameWord(result[kp[1]].words[kp[2]], w)}

\* C2: in word-level mode every word of every input segment is in the word
\* list of exactly one output segment.
C2_WordCoverage ==
    (Returned /\ mode = "word") =>
        \A i \in 1..Len(transcript) : \A j \in 1..Len(transcript[i].words) :
            Cardinality(Holders(transcript[i].words[j])) = 1

AscendingStarts(q) == \A k \in 1..(Len(q) - 1) : q[k].start <= q[k + 1].start

\* C3: for segments in non-decreasing start order with words sorted by start,
\* the word-level output is non-decreasing in start and the words of each
\* output segment are in ascending start order.
C3_OrderPreserved ==
    (/\ Returned /\ mode = "word"
     /\ \A i \in 1..Len(transcript) :
           transcript[i].start # Absent /\ AscendingStarts(transcript[i].words)
     /\ AscendingStarts(transcript)) =>
        /\ AscendingStarts(result)
        /\ \A k \in 1..Len(result) : AscendingStarts(result[k].words)

TurnSpeakers == {segments[k][3] : k \in 1..Len(segments)}

\* C4: when all turns carry one speaker label X, word-level alignment emits
\* one output segment per input segment, equal to it, with speaker X.
C4_SingleSpeakerIdempotence ==
    (Returned /\ mode = "word" /\ Cardinality(TurnSpeakers) = 1) =>
        /\ Len(result) = Len(transcript)
        /\ \A i \in 1..Len(transcript) : \A X \in TurnSpeakers :
              result[i] = [transcript[i] EXCEPT !.speaker = X]

\* the attributed words the one segment of a SpecWord run selects
Selected ==
    SelectSeq(word_speakers,
              LAMBDA w : w.end > transcript[1].start /\ w.start < transcript[1].end)

\* the segment of a SpecWord run was split: its selected words carry more
\* than one speaker
WasSplit ==
    /\ Returned /\ mode = "word" /\ Len(transcript) = 1
    /\ \E a, b \in 1..Len(Selected) : Selected[a].speaker # Selected[b].speaker

RECURSIVE ConcatWords(_, _)
\* the word lists of the first n output segments, concatenated
ConcatWords(out, n) ==
    IF n = 0 THEN <<>> ELSE ConcatWords(out, n - 1) \o out[n].words

RECURSIVE ConcatTexts(_, _)
ConcatTexts(out, n) ==
    IF n = 0 THEN <<>> ELSE ConcatTexts(out, n - 1) \o out[n].text

RECURSIVE WordTexts(_, _)
\* the texts of the first n words of q, concatenated with no separator
WordTexts(q, n) == IF n = 0 THEN <<>> ELSE WordTexts(q, n - 1) \o q[n].word

\* C5: when a segment is split, the word lists of the emitted sub-segments,
\* concatenated in output order, are exactly the selected attributed words.
C5_SplitKeepsSelectedWords ==
    WasSplit => ConcatWords(result, Len(result)) = Selected

\* a split into a run of two words followed by a run of one
C5_Witness ==
    /\ WasSplit
    /\ Len(result) = 2
    /\ Len(result[1].words) = 2
    /\ Len(Selected) = 3

\* C6 as stated: the text of each sub-segment is the plain concatenation of
\* its run's word texts, nothing removed, so the sub-segment texts concatenate
\* to the concatenation of all selected word texts.
C6_TextIsPlainConcatenation ==
    WasSplit =>
        /\ \A k \in 1..Len(result) :
              result[k].text = WordTexts(result[k].words, Len(result[k].words))
        /\ ConcatTexts(result, Len(result)) = WordTexts(Selected, Len(Selected))

\* t is full without its leading and trailing blanks
StrippedOf(t, full) ==
    /\ t = <<>> \/ (t[1] # " " /\ t[Len(t)] # " ")
    /\ \E a \in 0..Len(full) :
          /\ a + Len(t) <= Len(full)
          /\ SubSeq(full, a + 1, a + Len(t)) = t
          /\ \A i \in 1..a : full[i] = " "
          /\ \A i \in (a + Len(t) + 1)..Len(full) : full[i] = " "

\* C6 (amended): the text of each sub-segment is the concatenation, in order
\* and with no separator, of its run's word texts with the leading and
\* trailing whitespace of the concatenation removed.
C6_TextIsStrippedConcatenation ==
    WasSplit =>
        \A k \in 1..Len(result) :
            StrippedOf(result[k].text,
                       WordTexts(result[k].words, Len(result[k].words)))

\* a split whose first run has two words: its text lost the leading blank of
\* the first word and kept the blank between the two
C6_Witness ==
    /\ WasSplit
    /\ Len(result[1].words) = 2
    /\ result[1].text = <<"1", "1", " ", "1", "2">>

Labels == SpeakerIds \cup {"Unknown", "Speaker 1", "Speaker 2"}

\* C7: every call returns an output sequence: at least one labelled output
\* segment per input segment, whichever of turns and word timing are missing
\* and whether or not an exception occurred in the alignment paths.
C7_NeverRaises ==
    Returned =>
        /\ mode \in {"empty", "heuristic", "word", "segment", "except"}
        /\ Len(result) >= Len(transcript)
        /\ \A k \in 1..Len(result) : result[k].speaker \in Labels

\* an exception inside the word-level path ended in a heuristic labelling
C7_Witness ==
    /\ Returned /\ mode = "except"
    /\ Len(result) = 2
    /\ result[1].speaker = "Speaker 1"

\* C8: in heuristic mode the label of a segment differs from the label of the
\* segment before it exactly when its start minus the previous segment's end
\* exceeds 2 seconds.
C8_ToggleOnGap ==
    (Returned /\ mode = "heuristic") =>
        \A i \in 2..Len(transcript) :
            (result[i].speaker # result[i - 1].speaker)
                <=> (SegStart(transcript[i]) - SegEnd(transcript[i - 1]) > 2)

\* the word of a SpecAssign run and the speaker it was given
TheWord == transcript[1].words[1]
Assigned == word_speakers[1].speaker

\* overlap of the word with the k-th turn
WordTurnOverlap(k) ==
    LET lo == IF TheWord.start >= segments[k][1] THEN TheWord.start ELSE segments[k][1]
        hi == IF TheWord.end <= segments[k][2] THEN TheWord.end ELSE segments[k][2]
    IN  IF hi > lo THEN hi - lo ELSE 0

RECURSIVE TotalOverlap(_, _)
\* overlap of the word summed over those of the first n turns labelled sp
TotalOverlap(sp, n) ==
    IF n = 0 THEN 0
    ELSE TotalOverlap(sp, n - 1) + (IF segments[n][3] = sp THEN WordTurnOverlap(n) ELSE 0)

Total(sp) == TotalOverlap(sp, Len(segments))

AssignedOne == Returned /\ mode = "word" /\ Len(word_speakers) = 1

HasOverlap == \E k \in 1..Len(segments) : WordTurnOverlap(k) > 0

IsMaximal(sp) == \A other \in TurnSpeakers : Total(other) <= Total(sp)

\* index of the first turn labelled sp
FirstTurn(sp) ==
    CHOOSE k \in 1..Len(segments) :
        /\ segments[k][3] = sp
        /\ \A j \in 1..(k - 1) : segments[j][3] # sp

\* index of the first turn labelled sp that overlaps the word
FirstOverlappingTurn(sp) ==
    CHOOSE k \in 1..Len(segments) :
        /\ segments[k][3] = sp /\ WordTurnOverlap(k) > 0
        /\ \A j \in 1..(k - 1) : ~(segments[j][3] = sp /\ WordTurnOverlap(j) > 0)

\* C9 as stated: a word overlapping some turn gets the speaker of maximal
\* summed overlap; among speakers tied for the maximum, the one whose label
\* comes first in turn order.
C9_TieGoesToFirstInTurnOrder ==
    (AssignedOne /\ HasOverlap) =>
        /\ IsMaximal(Assigned)
        /\ \A sp \in TurnSpeakers :
              Total(sp) = Total(Assigned) => FirstTurn(Assigned) <= FirstTurn(sp)

\* C9 (amended): a word overlapping some turn gets the speaker of maximal
\* summed overlap; among speakers tied for the maximum, the one whose first
\* turn overlapping the word comes first in turn order.
C9_TieGoesToFirstOverlappingTurn ==
    (AssignedOne /\ HasOverlap) =>
        /\ IsMaximal(Assigned)
        /\ \A sp \in TurnSpeakers :
              Total(sp) = Total(Assigned) =>
                  FirstOverlappingTurn(Assigned) <= FirstOverlappingTurn(sp)

\* two speakers tie at 2 seconds, one of them by the sum of two turns, and
\* the first of them to overlap the word is assigned
C9_Witness ==
    /\ AssignedOne /\ HasOverlap
    /\ Len(segments) = 3
    /\ \A sp \in SpeakerIds : sp \in TurnSpeakers /\ Total(sp) = 2
    /\ WordTurnOverlap(1) = 1
    /\ Assigned = segments[1][3]

\* twice the distance between the centre of the word and of the k-th turn
CenterDistance2(k) ==
    LET d == (TheWord.start + TheWord.end) - (segments[k][1] + segments[k][2])
    IN  IF d >= 0 THEN d ELSE 0 - d

\* C10: a word overlapping no turn gets the speaker of a turn whose centre is
\* nearest to the centre of the word, never "Unknown".
C10_NearestTurnFallback ==
    (AssignedOne /\ ~HasOverlap) =>
        /\ Assigned # "Unknown"
        /\ \E k \in 1..Len(segments) :
              /\ segments[k][3] = Assigned
              /\ \A j \in 1..Len(segments) : CenterDistance2(k) <= CenterDistance2(j)

\* a word in no turn, nearest to the second of two turns of different speakers
C10_Witness ==
    /\ AssignedOne /\ ~HasOverlap
    /\ Len(segments) = 2
    /\ segments[1][3] # segments[2][3]
    /\ CenterDistance2(2) < CenterDistance2(1)
    /\ Assigned = segments[2][3]

\* overlap of the own interval of the i-th input segment with the k-th turn
SegTurnOverlap(i, k) ==
    LET lo == IF SegStart(transcript[i]) >= segments[k][1]
              THEN SegStart(transcript[i]) ELSE segments[k][1]
        hi == IF SegEnd(transcript[i]) <= segments[k][2]
              THEN SegEnd(transcript[i]) ELSE segments[k][2]
    IN  IF hi > lo THEN hi - lo ELSE 0

RECURSIVE SegTotalOverlap(_, _, _)
\* overlap of the i-th segment summed over those of the first n turns labelled sp
SegTotalOverlap(i, sp, n) ==
    IF n = 0 THEN 0
    ELSE SegTotalOverlap(i, sp, n - 1)
         + (IF segments[n][3] = sp THEN SegTurnOverlap(i, n) ELSE 0)

SegTotal(i, sp) == SegTotalOverlap(i, sp, Len(segments))

\* C11: in segment-level mode (turns present, no segment has words) the output
\* has one entry per input segment, in order and otherwise unchanged; its
\* speaker is one of maximal summed overlap between the segment's own interval
\* and the turns, and "Unknown" when no turn overlaps that interval.
C11_SegmentLevelByOwnInterval ==
    (Returned /\ mode = "segment") =>
        /\ Len(result) = Len(transcript)
        /\ \A i \in 1..Len(transcript) :
              /\ result[i] = [transcript[i] EXCEPT !.speaker = result[i].speaker]
              /\ IF \E k \in 1..Len(segments) : SegTurnOverlap(i, k) > 0
                 THEN /\ result[i].speaker \in TurnSpeakers
                      /\ \A other \in TurnSpeakers :
                            SegTotal(i, other) <= SegTotal(i, result[i].speaker)
                 ELSE result[i].speaker = "Unknown"

\* the intervals a returned call compared with the turns: the words of the
\* flat list in word-level mode, the segments in segment-level mode
ComparedIntervals ==
    IF mode = "word"
    THEN {<<word_speakers[k].start, word_speakers[k].end>> : k \in 1..Len(word_speakers)}
    ELSE IF mode = "segment"
    THEN {<<entry_start(transcript[i]), legacy_entry_end(transcript[i])>> :
             i \in 1..Len(transcript)}
    ELSE {}

\* max(0, min(A.end, B.end) - max(A.start, B.start)), written out
ClaimedOverlap(a_start, a_end, b_start, b_end) ==
    LET hi == IF a_end <= b_end THEN a_end ELSE b_end
        lo == IF a_start >= b_start THEN a_start ELSE b_start
    IN  IF hi - lo >= 0 THEN hi - lo ELSE 0

\* C12: the overlap computed between a word or segment interval A and a turn
\* interval B equals max(0, min(A.end, B.end) - max(A.start, B.start)), is
\* never negative and is the same with A and B exchanged, in the word-level
\* and in the segment-level path.
C12_OverlapFormula ==
    Returned =>
        \A A \in ComparedIntervals : \A k \in 1..Len(segments) :
            LET B == segments[k]
                d == overlap_duration(A[1], A[2], B[1], B[2])
            IN  /\ d = ClaimedOverlap(A[1], A[2], B[1], B[2])
                /\ d >= 0
                /\ d = overlap_duration(B[1], B[2], A[1], A[2])

\* segment-level mode with a segment ending before a turn starts (the
\* difference is negative and clamped) and a segment overlapping a turn
C12_Witness ==
    /\ Returned /\ mode = "segment"
    /\ \E A \in ComparedIntervals : \E k \in 1..Len(segments) :
          /\ A[2] < segments[k][1]
          /\ overlap_duration(A[1], A[2], segments[k][1], segments[k][2]) = 0
    /\ \E A \in ComparedIntervals : \E k \in 1..Len(segments) :
          overlap_duration(A[1], A[2], segments[k][1], segments[k][2]) > 0

Accumulated(segs, sp) ==
    LET d == speaker_overlaps(TheWord.start, TheWord.end, segs, Len(segs))
    IN  IF \E i \in 1..Len(d) : d[i][1] = sp
        THEN d[CHOOSE i \in 1..Len(d) : d[i][1] = sp][2]
        ELSE 0

\* the turns with the end of the k-th moved to e
ExtendTurn(segs, k, e) == [segs EXCEPT ![k] = <<segs[k][1], e, segs[k][3]>>]

\* the ends the k-th turn can be extended to
LaterEnds(k) == segments[k][2]..(MaxTime + 1)

\* C14: for a word and a turn that overlaps it, moving the end of that turn
\* later, every other turn and the word unchanged, does not decrease the
\* overlap accumulated for the speaker of that turn.
C14_OverlapMonotoneInTurnEnd ==
    AssignedOne =>
        \A k \in 1..Len(segments) :
            WordTurnOverlap(k) > 0 =>
                \A e \in LaterEnds(k) :
                    Accumulated(ExtendTurn(segments, k, e), segments[k][3])
                        >= Accumulated(segments, segments[k][3])

\* a speaker with two turns overlapping the word; extending the first of the
\* two raises the overlap accumulated for that speaker
C14_Witness ==
    /\ AssignedOne
    /\ \E k, j \in 1..Len(segments) :
          /\ k < j /\ segments[k][3] = segments[j][3]
          /\ WordTurnOverlap(k) > 0 /\ WordTurnOverlap(j) > 0
          /\ \E e \in LaterEnds(k) :
                Accumulated(ExtendTurn(segments, k, e), segments[k][3])
                    > Accumulated(segments, segments[k][3])

\* C15: a call in which some segment, word or turn has end < start is
\* rejected: it returns no alignment output from any of the paths.
C15_MalformedIntervalsRejected ==
    Malformed(transcript, diarization_segments) =>
        ~(Returned /\ mode \in {"word", "segment", "heuristic", "except"})

\* the step in which a pipeline calls diarize_transcript
BeginsAlignment == pc # "call" /\ pc' = "call"

\* C16: in both pipelines the call of diarize_transcript begins only when the
\* transcription invocation and the diarization invocation have both
\* completed, also when one of them failed and returned nothing.
C16_AlignmentAfterBothInvocations ==
    [][BeginsAlignment =>
          /\ transcription_task.state = "done"
          /\ diarization_task.state = "done"]_vars

\* the local pipeline aligns after a diarization that returned nothing and a
\* transcription that returned two segments
C16_Witness ==
    /\ flow = "local" /\ pc = "call"
    /\ diarization_task = Done(<<>>)
    /\ transcription_task.state = "done"
    /\ Len(transcript) = 2

\* C17: every output segment of a returned call, in word-level, segment-level
\* and heuristic mode, carries a start, an end, a text and a speaker that is
\* exactly one label.
C17_OutputSegmentShape ==
    (Returned /\ mode \in {"word", "segment", "heuristic", "except"}) =>
        \A k \in 1..Len(result) :
            /\ result[k].speaker \in Labels
            /\ result[k].start # Absent
            /\ result[k].end # Absent
            /\ result[k].text \in Seq({" ", "S"} \cup {Digit[d] : d \in 1..Len(Digit)})

\* the attributed words of the flat list that lie within the own boundaries
\* of the i-th input segment; a word that only touches a boundary does not
OwnSelection(i) ==
    SelectSeq(word_speakers,
              LAMBDA w : /\ w.end > SegStart(transcript[i])
                         /\ w.start < SegEnd(transcript[i]))

\* C18: in word-level mode the words used to build the output of a segment S
\* are exactly the attributed words of the flat list with word.end > S.start
\* and word.start < S.end, S.start and S.end being S's own boundaries.
C18_SelectionByOwnBoundaries ==
    (Returned /\ mode = "word") =>
        \A i \in 1..Len(transcript) :
            segment_words(transcript[i], word_speakers) = OwnSelection(i)

\* the positions of the output segments that equal the i-th input segment in
\* every field but the speaker (the texts of the input segments are distinct)
OutputsOf(i) ==
    {k \in 1..Len(result) :
        result[k] = [transcript[i] EXCEPT !.speaker = result[k].speaker]}

\* the hybrid loop selected no attributed word for the i-th input segment
NothingSelected(i) == segment_words(transcript[i], word_speakers) = <<>>

\* C19: in word-level mode a segment for which no attributed word is selected
\* is not dropped: exactly one output segment is emitted for it, equal to the
\* segment in every field except the speaker, which is "Unknown".
C19_EmptySelectionKeepsSegment ==
    (Returned /\ mode = "word") =>
        \A i \in 1..Len(transcript) :
            NothingSelected(i) =>
                /\ Cardinality(OutputsOf(i)) = 1
                /\ \A k \in OutputsOf(i) : result[k].speaker = "Unknown"

\* of two segments the first has a word of its own and still selects nothing;
\* it is emitted as "Unknown" before the labelled output of the second
C19_Witness ==
    /\ Returned /\ mode = "word"
    /\ Len(transcript) = 2 /\ Len(result) = 2
    /\ transcript[1].words # <<>>
    /\ NothingSelected(1) /\ ~NothingSelected(2)
    /\ result[1] = [transcript[1] EXCEPT !.speaker = "Unknown"]
    /\ result[2].speaker \in SpeakerIds

\* the words the hybrid loop selected for the i-th input segment
SelectedFor(i) == segment_words(transcript[i], word_speakers)

\* the words selected for the i-th input segment all carry the speaker X
AllSelectedBy(i, X) ==
    /\ SelectedFor(i) # <<>>
    /\ \A k \in 1..Len(SelectedFor(i)) : SelectedFor(i)[k].speaker = X

\* C20: in word-level mode, when the words selected for a segment S all carry
\* one speaker, exactly one output segment is emitted for S: it has S's
\* original start, end and text, not values recomputed from the words, and
\* that speaker.
C20_OneSpeakerKeepsSegment ==
    (Returned /\ mode = "word") =>
        /\ \A i \in 1..Len(transcript) : \A X \in SpeakerIds :
              AllSelectedBy(i, X) =>
                  /\ Cardinality(OutputsOf(i)) = 1
                  /\ \A k \in OutputsOf(i) :
                        /\ result[k].speaker = X
                        /\ SegStart(result[k]) = SegStart(transcript[i])
                        /\ SegEnd(result[k]) = SegEnd(transcript[i])
                        /\ result[k].text = transcript[i].text
        /\ (\A i \in 1..Len(transcript) :
               NothingSelected(i) \/ \E X \in SpeakerIds : AllSelectedBy(i, X))
              => Len(result) = Len(transcript)

\* a segment from 0 to 2 whose two selected words, both of one speaker, start
\* after 0: the output keeps 0 to 2 and the text of the segment
C20_Witness ==
    /\ Returned /\ mode = "word"
    /\ Len(transcript) = 1 /\ Len(result) = 1
    /\ Len(SelectedFor(1)) = 2
    /\ \E X \in SpeakerIds : AllSelectedBy(1, X) /\ result[1].speaker = X
    /\ transcript[1].start = 0 /\ SelectedFor(1)[1].start > 0
    /\ result[1].start = 0 /\ result[1].end = 2
    /\ result[1].text = transcript[1].text

\* C21: in a split every sub-segment holds only words attributed to the
\* speaker of the sub-segment, and two consecutive sub-segments have
\* different speakers.
C21_RunsHomogeneousAndMaximal ==
    WasSplit =>
        /\ \A k \in 1..Len(result) :
              /\ result[k].words # <<>>
              /\ \A j \in 1..Len(result[k].words) :
                    result[k].words[j].speaker = result[k].speaker
        /\ \A k \in 1..(Len(result) - 1) :
              result[k].speaker # result[k + 1].speaker

\* a split into a run of two words of one speaker and a run of one word of
\* the other
C21_Witness ==
    /\ WasSplit
    /\ Len(result) = 2
    /\ Len(result[1].words) = 2 /\ Len(result[2].words) = 1
    /\ result[1].words[1].speaker = result[1].words[2].speaker
    /\ result[1].speaker # result[2].speaker

\* C22: in a split the start of a sub-segment is the start of the first word
\* of its run and its end is the end of the last word of its run; when the
\* selected words are sorted by start, every sub-segment has start <= end and
\* the starts of consecutive sub-segments do not decrease.
C22_SubSegmentBounds ==
    WasSplit =>
        /\ \A k \in 1..Len(result) :
              /\ result[k].start = result[k].words[1].start
              /\ result[k].end = result[k].words[Len(result[k].words)].end
        /\ AscendingStarts(Selected) =>
              /\ \A k \in 1..Len(result) : result[k].start <= result[k].end
              /\ AscendingStarts(result)

\* a split whose first run has two words, the second ending later than the
\* first: the sub-segment ends where the second word ends
C22_Witness ==
    /\ WasSplit
    /\ AscendingStarts(Selected)
    /\ Len(result[1].words) = 2
    /\ result[1].words[1].end < result[1].words[2].end
    /\ result[1].end = result[1].words[2].end
    /\ result[1].start < result[2].start

\* what the i-th input segment is to contribute to the flat word list: its
\* own words, or one placeholder spanning the segment
ExpectedWords(i) ==
    IF transcript[i].words # <<>> THEN transcript[i].words
    ELSE <<[word |-> transcript[i].text,
            start |-> SegStart(transcript[i]),
            end |-> SegEnd(transcript[i]),
            probability |-> IF transcript[i].confidence # Absent
                            THEN transcript[i].confidence ELSE 0]>>

RECURSIVE ExpectedFlatList(_)
\* the contributions of the first n input segments, in order
ExpectedFlatList(n) ==
    IF n = 0 THEN <<>> ELSE ExpectedFlatList(n - 1) \o ExpectedWords(n)

\* C23: in word-level mode (turns present, some segment has words) the flat
\* word list holds, segment by segment, the words of a segment that has word
\* data and one placeholder word, with the segment's start, end, text and
\* confidence, for a segment that has none.
C23_FlatWordList ==
    (Returned /\ segments # <<>> /\ has_words(transcript)) =>
        LET expected == ExpectedFlatList(Len(transcript))
        IN  /\ Len(word_speakers) = Len(expected)
            /\ \A k \in 1..Len(expected) :
                  /\ word_speakers[k].word = expected[k].word
                  /\ word_speakers[k].start = expected[k].start
                  /\ word_speakers[k].end = expected[k].end
                  /\ word_speakers[k].probability = expected[k].probability

\* C24: in heuristic mode the first segment gets the initial label
\* "Speaker 1", whatever its start time.
C24_FirstSegmentInitialLabel ==
    (Returned /\ mode = "heuristic") => result[1].speaker = "Speaker 1"

\* C25: in heuristic mode the output has the length and the order of the
\* input; each output entry equals its input segment in every field except
\* the speaker, which is "Speaker 1" or "Speaker 2".
C25_HeuristicFrame ==
    (Returned /\ mode = "heuristic") =>
        /\ Len(result) = Len(transcript)
        /\ \A i \in 1..Len(transcript) :
              /\ result[i] = [transcript[i] EXCEPT !.speaker = result[i].speaker]
              /\ result[i].speaker \in {"Speaker 1", "Speaker 2"}

\* three entries, the first two with a duration, labelled with both labels,
\* each output keeping the start time, the duration and the text of its input
C25_Witness ==
    /\ Returned /\ mode = "heuristic"
    /\ Len(transcript) = 3 /\ Len(result) = 3
    /\ transcript[1].chunk_duration > 0 /\ transcript[2].chunk_duration > 0
    /\ \A i \in 1..3 :
          /\ result[i].chunk_duration = transcript[i].chunk_duration
          /\ result[i].start_time = transcript[i].start_time
          /\ result[i].text = transcript[i].text
    /\ result[1].speaker = "Speaker 1" /\ result[3].speaker = "Speaker 2"

C27_ProgressReachesTerminal ==
    \A m \in Meetings :
        /\ [](upload_pc[m] # "idle" => <>PollerEnds(progress_tracker[m]))
        /\ [](upload_pc[m] = "ended" => PollerEnds(progress_tracker[m]))

\* C28: when an exception occurs inside the word-level or segment-level
\* path, the call returns the heuristic labelling of the complete input
\* transcript, one entry per input segment and each the input segment under a
\* heuristic label; nothing built before the exception is returned.
C28_ExceptionReturnsWholeHeuristic ==
    (Returned /\ mode = "except") =>
        /\ result = _heuristic_diarization(transcript)
        /\ Len(result) = Len(transcript)
        /\ \A i \in 1..Len(result) :
               /\ result[i].speaker \in {"Speaker 1", "Speaker 2"}
               /\ result[i] = [transcript[i] EXCEPT !.speaker = result[i].speaker]

\* the first segment's words were already in the flat list when the second
\* segment, without words and without start and end, raised: both segments
\* come back under heuristic labels
C28_Witness ==
    /\ Returned /\ mode = "except"
    /\ Len(transcript) = 2
    /\ HasWordData(transcript[1])
    /\ ~HasWordData(transcript[2]) /\ PlaceholderRaises(transcript[2])
    /\ Len(result) = 2
    /\ result[1].words = transcript[1].words
    /\ result[2].speaker \in {"Speaker 1", "Speaker 2"}

\* the first turn, in turn order, whose centre is at the minimum distance
\* from the centre of the word
FirstNearestTurn ==
    CHOOSE k \in 1..Len(segments) :
        /\ \A j \in 1..Len(segments) : CenterDistance2(k) <= CenterDistance2(j)
        /\ \A j \in 1..(k - 1) : CenterDistance2(j) > CenterDistance2(k)

\* C29: a word overlapping no turn, with several turns at the same minimum
\* distance between centres, gets the speaker of the first of these turns in
\* turn order.
C29_NearestTieGoesToFirstTurn ==
    (AssignedOne /\ ~HasOverlap) => Assigned = segments[FirstNearestTurn][3]

\* a word in the gap between two turns of different speakers, as far from
\* the one as from the other, gets the speaker of the turn listed first
C29_Witness ==
    /\ AssignedOne /\ ~HasOverlap
    /\ Len(segments) >= 2
    /\ segments[1][3] # segments[2][3]
    /\ CenterDistance2(1) = CenterDistance2(2)
    /\ \A j \in 1..Len(segments) : CenterDistance2(1) <= CenterDistance2(j)
    /\ segments[1][1] > TheWord.end
    /\ Assigned = segments[1][3]

\* C30: every entry that the transcription thread of meeting m appended is
\* in the list that stop_recording(m) returned, and no entry produced from the
\* audio of m is appended after stop_recording(m) has returned, in every
\* interleaving of the recording thread, the transcription thread and the
\* stop_recording caller.
C30_RecorderTranscriptIsolation ==
    \A m \in ReturnedMeetings :
    \A k \in 1..Len(appended) :
        /\ appended[k].entry.by = Thread(m) =>
               \E i \in 1..Len(returned[m].transcript) :
                   returned[m].transcript[i] = appended[k].entry
        /\ m \in appended[k].entry.audio => m \notin appended[k].after

====
